---- MODULE Spec2Model ----
(***************************************************************************)
(* A model of the in-memory search index of search_server.cpp,             *)
(* process_queries.cpp, string_processing.cpp and RemoveDuplicates of      *)
(* test_example_functions.cpp.                                             *)
(*                                                                         *)
(* Texts are sequences of bytes (char values).  A std::string_view is      *)
(* modelled by the bytes it views together with, where the view is stored  *)
(* in a container, the validity of its pointer (field data): the set       *)
(* holding the id of the document whose owned text it points into, or the  *)
(* empty set once that text has been destroyed.  A frequency (double) is   *)
(* modelled exactly, as a fraction [num, den] in lowest terms.             *)
(*                                                                         *)
(* A map keyed by string_view is modelled by the sequence of its nodes in   *)
(* iteration order, since a map whose keys were compared through destroyed *)
(* text can hold several nodes for one word.  A search in such a map       *)
(* compares the probe with the keys on its path.  A comparison with a view *)
(* of destroyed text reads freed memory, and the model gives the read      *)
(* every outcome: the bytes still read as the word, and the search behaves *)
(* as on live text; they read as something else, and the search misses a   *)
(* node the map holds or ends at another node (at() throws out_of_range,   *)
(* count() and find() answer "absent", operator[] adds a second node for   *)
(* the word); or the read faults.  An exception reaches the caller, who    *)
(* goes on with the index the call left.  A fault (pc = "crashed") and     *)
(* std::terminate (pc = "terminated") end a behaviour.                     *)
(***************************************************************************)
EXTENDS Integers, Sequences, FiniteSets, TLC

VARIABLES
    documents_,                 \* std::map<int, DocumentData>
    document_ids_,              \* std::set<int>
    word_to_document_freqs_,    \* std::map<string_view, std::map<int, double>>
    document_to_word_freqs_,    \* std::map<int, std::map<string_view, double>>
    pc,                         \* where the caller is: idle, in a parallel call, returned, ...
    call,                       \* the frame of the parallel call in flight
    last,                       \* the call that completed last and its outcome
    add_calls                   \* the AddDocument calls the caller has made

index == <<documents_, document_ids_, word_to_document_freqs_, document_to_word_freqs_>>
vars == <<documents_, document_ids_, word_to_document_freqs_, document_to_word_freqs_,
          pc, call, last, add_calls>>

(***************************************************************************)
(* Bounds of the model.                                                    *)
(***************************************************************************)
MaxDocId == 1
MaxQueries == 2
MaxTextLen == 4
\* The AddDocument calls the caller makes in a behaviour, and in a
\* behaviour of one-word documents.
MaxAddCalls == 2
MaxShortAddCalls == 3

(***************************************************************************)
(* Sequences and byte strings.                                             *)
(***************************************************************************)
Range(s) == {s[i] : i \in 1..Len(s)}

Min(a, b) == IF a < b THEN a ELSE b

\* operator< of std::string_view: lexicographic on the bytes, a proper prefix first.
StrLess(a, b) ==
    \/ \E i \in 1..Min(Len(a), Len(b)) :
          /\ a[i] < b[i]
          /\ \A j \in 1..(i - 1) : a[j] = b[j]
    \/ /\ Len(a) < Len(b)
       /\ \A j \in 1..Len(a) : a[j] = b[j]

\* The words of a set in ascending order of operator< of string_view.
RECURSIVE SortedSeq(_)
SortedSeq(S) ==
    IF S = {} THEN <<>>
    ELSE LET m == CHOOSE x \in S : \A y \in S \ {x} : StrLess(x, y)
         IN  <<m>> \o SortedSeq(S \ {m})

\* The keys of a std::set<int> / std::map<int, ...> in iteration order.
RECURSIVE SortedInts(_)
SortedInts(S) ==
    IF S = {} THEN <<>>
    ELSE LET m == CHOOSE x \in S : \A y \in S : x <= y
         IN  <<m>> \o SortedInts(S \ {m})

\* std::sort of a vector<string_view> (equal elements are indistinguishable).
RECURSIVE Sort(_)
Sort(s) ==
    IF s = <<>> THEN <<>>
    ELSE LET m == CHOOSE i \in 1..Len(s) : \A j \in 1..Len(s) : ~StrLess(s[j], s[i])
         IN  <<s[m]>> \o Sort(SubSeq(s, 1, m - 1) \o SubSeq(s, m + 1, Len(s)))

\* std::unique followed by erase: one element of every run of equal neighbours.
RECURSIVE Unique(_)
Unique(s) ==
    IF Len(s) <= 1 THEN s
    ELSE IF s[1] = s[2] THEN Unique(Tail(s))
    ELSE <<s[1]>> \o Unique(Tail(s))

\* The restriction of a map to the keys other than k (std::map::erase(key)).
Erase(m, k) == [x \in DOMAIN m \ {k} |-> m[x]]

(***************************************************************************)
(* string_processing.cpp                                                   *)
(***************************************************************************)
Space == 32

\* str.find(c): the first position (from 1) holding c, 0 for npos.
Find(str, c) ==
    IF \E i \in 1..Len(str) : str[i] = c
    THEN CHOOSE i \in 1..Len(str) : str[i] = c /\ \A j \in 1..(i - 1) : str[j] # c
    ELSE 0

RECURSIVE SplitIntoWords(_)
SplitIntoWords(str) ==
    LET space == Find(str, Space)
    IN  IF space = 0
        THEN <<str>>
        ELSE <<SubSeq(str, 1, space - 1)>>
                 \o SplitIntoWords(SubSeq(str, space + 1, Len(str)))

MakeUniqueNonEmptyStrings(strings) == {s \in Range(strings) : s # <<>>}

(***************************************************************************)
(* search_server.cpp: the query and word functions.                        *)
(***************************************************************************)
\* The text the server of the model is constructed from: the stop word "s".
StopWordsText == <<115>>

stop_words_ == MakeUniqueNonEmptyStrings(SplitIntoWords(StopWordsText))

IsStopWord(word) == word \in stop_words_

FirstControlChar == 0
FirstPrintableChar == 32

IsValidWord(word) ==
    \A i \in 1..Len(word) : ~(word[i] >= FirstControlChar /\ word[i] < FirstPrintableChar)

\* [err, words]: err is "invalid_argument" when a word is not valid (the throw
\* of line 131), and words are then the ones collected before it.
RECURSIVE SplitNoStopFrom(_, _)
SplitNoStopFrom(all, words) ==
    IF all = <<>> THEN [err |-> "none", words |-> words]
    ELSE IF ~IsValidWord(Head(all)) THEN [err |-> "invalid_argument", words |-> words]
    ELSE IF ~IsStopWord(Head(all)) THEN SplitNoStopFrom(Tail(all), Append(words, Head(all)))
    ELSE SplitNoStopFrom(Tail(all), words)

SplitIntoWordsNoStop(text) == SplitNoStopFrom(SplitIntoWords(text), <<>>)

\* The largest and the smallest value of an int.
MaxInt == 2147483647

MinInt == -MaxInt - 1

\* rating_sum += rating in int: a sum outside the range of int comes back
\* into it by 2^32, which is what the addition of the build leaves (the
\* halves are moved first so that no step leaves the range).
AddInt(a, b) ==
    IF b > 0 /\ a > MaxInt - b THEN ((a - MaxInt) - 1) + ((b - MaxInt) - 1)
    ELSE IF b < 0 /\ a < MinInt - b THEN ((a + MaxInt) + 1) + ((b + MaxInt) + 1)
    ELSE a + b

\* The loop of lines 144-147, from the left.
RECURSIVE Sum(_)
Sum(s) ==
    IF s = <<>> THEN 0
    ELSE AddInt(Sum(SubSeq(s, 1, Len(s) - 1)), s[Len(s)])

\* C++ integer division truncates toward zero.
TruncDiv(a, b) ==
    IF a < 0 /\ a % b # 0 THEN (a \div b) + 1 ELSE a \div b

ComputeAverageRating(ratings) ==
    IF ratings = <<>> THEN 0 ELSE TruncDiv(Sum(ratings), Len(ratings))

MinusChar == 45

\* [err, data, is_minus, is_stop]
ParseQueryWord(word) ==
    IF word = <<>>
    THEN [err |-> "invalid_argument", data |-> word, is_minus |-> FALSE, is_stop |-> FALSE]
    ELSE LET is_minus == word[1] = MinusChar
             data == IF is_minus THEN Tail(word) ELSE word
         IN  IF data = <<>> \/ data[1] = MinusChar \/ ~IsValidWord(data)
             THEN [err |-> "invalid_argument", data |-> data,
                   is_minus |-> is_minus, is_stop |-> FALSE]
             ELSE [err |-> "none", data |-> data,
                   is_minus |-> is_minus, is_stop |-> IsStopWord(data)]

\* The loop of ParseQuery over the words left, with the result so far.
RECURSIVE ParseQueryFrom(_, _)
ParseQueryFrom(words, result) ==
    IF words = <<>> THEN result
    ELSE LET query_word == ParseQueryWord(Head(words))
         IN  IF query_word.err # "none"
             THEN [err |-> query_word.err, plus_words |-> <<>>, minus_words |-> <<>>]
             ELSE IF query_word.is_stop THEN ParseQueryFrom(Tail(words), result)
             ELSE IF query_word.is_minus
             THEN ParseQueryFrom(Tail(words),
                      [result EXCEPT !.minus_words = Append(@, query_word.data)])
             ELSE ParseQueryFrom(Tail(words),
                      [result EXCEPT !.plus_words = Append(@, query_word.data)])

\* [err, plus_words, minus_words]
ParseQuery(text, skip_sort) ==
    LET result == ParseQueryFrom(SplitIntoWords(text),
                      [err |-> "none", plus_words |-> <<>>, minus_words |-> <<>>])
    IN  IF result.err # "none" \/ skip_sort
        THEN result
        ELSE [err |-> "none",
              plus_words |-> Unique(Sort(result.plus_words)),
              minus_words |-> Unique(Sort(result.minus_words))]

(***************************************************************************)
(* Frequencies: exact fractions standing for the doubles of the code.      *)
(***************************************************************************)
RECURSIVE Gcd(_, _)
Gcd(a, b) == IF b = 0 THEN a ELSE Gcd(b, a % b)

Frac(n, d) == LET g == Gcd(n, d) IN [num |-> n \div g, den |-> d \div g]

\* A value-initialised double, as operator[] of a map creates it.
ZeroFreq == [num |-> 0, den |-> 1]

FracAdd(f, g) == Frac(f.num * g.den + g.num * f.den, f.den * g.den)

\* 1.0 / words.size()  (num 1, den 0 stands for the infinity of an empty list)
InvWordCount(words) == [num |-> 1, den |-> Len(words)]

\* The sum of the values of a map<string_view, double>.
RECURSIVE SumFreqs(_)
SumFreqs(word_freqs) ==
    IF word_freqs = <<>> THEN ZeroFreq
    ELSE FracAdd(Head(word_freqs).freq, SumFreqs(Tail(word_freqs)))

(***************************************************************************)
(* The index as a value: the four containers of SearchServer.              *)
(*   documents_[id]              = [rating, status, text]                  *)
(*   word_to_document_freqs_     = the nodes [key, data, freqs] of the     *)
(*                                 reverse map, freqs[id] a fraction       *)
(*   document_to_word_freqs_[id] = the nodes [key, data, freq] of the map  *)
(*                                 of the document, in iteration order     *)
(* key holds the bytes the view had when the node was made and data the    *)
(* validity of its pointer, see the top of the module.                     *)
(***************************************************************************)
EmptyMap == <<>>

EmptyIndex ==
    [documents_ |-> EmptyMap, document_ids_ |-> {},
     word_to_document_freqs_ |-> EmptyMap, document_to_word_freqs_ |-> EmptyMap]

Index ==
    [documents_ |-> documents_, document_ids_ |-> document_ids_,
     word_to_document_freqs_ |-> word_to_document_freqs_,
     document_to_word_freqs_ |-> document_to_word_freqs_]

GetDocumentCount(S) == Cardinality(DOMAIN S.documents_)

\* The ids begin()..end() iterates over, in order.
DocumentIds(S) == SortedInts(S.document_ids_)

GetWordFrequencies(S, document_id) ==
    IF document_id \notin DOMAIN S.document_to_word_freqs_
    THEN EmptyMap
    ELSE S.document_to_word_freqs_[document_id]

\* The words the nodes of a map keyed by string_view were made for.
Keys(m) == {m[i].key : i \in DOMAIN m}

\* The nodes of the map made for word.
NodesOf(m, word) == {i \in DOMAIN m : m[i].key = word}

\* A key whose pointer refers to destroyed text.
Dangling(entry) == entry.data = {}

\* The destruction of the text of a document: every view into it dangles.
Invalidate(entry, document_id) ==
    IF entry.data = {document_id} THEN [entry EXCEPT !.data = {}] ELSE entry

DestroyText(S, document_id) ==
    LET rev == S.word_to_document_freqs_
        fwd == S.document_to_word_freqs_
    IN  [S EXCEPT
            !.word_to_document_freqs_ =
                [i \in DOMAIN rev |-> Invalidate(rev[i], document_id)],
            !.document_to_word_freqs_ =
                [d \in DOMAIN fwd |->
                    [i \in DOMAIN fwd[d] |-> Invalidate(fwd[d][i], document_id)]]]

\* The nodes of a map keyed by string_view whose keys dangle.
DanglingNodes(m) == {i \in DOMAIN m : Dangling(m[i])}

\* The search for word in a map keyed by string_view (find, count, at,
\* operator[]).  The search compares the probe with the keys on its path.
\* While the probe and every key are live it finds the node of word or
\* misses.  A comparison with a dangling side reads destroyed text, and any
\* node of the map may lie on the path: the search can still end at a node
\* of word, it can miss a node the map holds, it can end at another node
\* (any node when the probe dangles, a node with a dangling key
\* otherwise), and the read can fault.  Outcomes: [kind, pos], kind
\* "found" (pos the node), "miss" or "crash".
FindOutcomes(m, word, probe_dangles) ==
    LET reads == DOMAIN m # {} /\ (probe_dangles \/ DanglingNodes(m) # {})
        exact == NodesOf(m, word)
        others == (IF probe_dangles THEN DOMAIN m ELSE DanglingNodes(m)) \ exact
        miss == [kind |-> "miss", pos |-> 0]
    IN  IF ~reads
        THEN (IF exact # {} THEN {[kind |-> "found", pos |-> i] : i \in exact}
              ELSE {miss})
        ELSE {[kind |-> "found", pos |-> i] : i \in exact \cup others}
             \cup {miss, [kind |-> "crash", pos |-> 0]}

(***************************************************************************)
(* AddDocument                                                             *)
(***************************************************************************)
\* A guard that forgets the ids already present.
InvalidDocumentId_NegativeOnly(S, document_id) == document_id < 0

\* The guard of line 22.
InvalidDocumentId(S, document_id) ==
    document_id < 0 \/ document_id \in DOMAIN S.documents_

\* documents_.emplace(id, data): no effect when the key is present.
Emplace(S, document_id, data) ==
    IF document_id \in DOMAIN S.documents_ THEN S
    ELSE [S EXCEPT !.documents_ = (document_id :> data) @@ S.documents_]

\* The map with node in front of the node at position p.
InsertAt(m, p, node) == SubSeq(m, 1, p - 1) \o <<node>> \o SubSeq(m, p, Len(m))

\* The place of a new node for word by the bytes of the keys.
SortedPos(m, word) == 1 + Cardinality({i \in DOMAIN m : ~StrLess(word, m[i].key)})

\* The places operator[] can give a new node for word in the iteration
\* order: the place of its bytes while every key of the map is live, any
\* place once the search compared the word with destroyed text.
InsertPositions(m, word) ==
    IF DanglingNodes(m) = {} THEN {SortedPos(m, word)} ELSE 1..(Len(m) + 1)

\* Line 30, word_to_document_freqs_[word][document_id] += inv_word_count,
\* r the outcome of the search of operator[]: a search that ended at a
\* node adds to the value of that node, which keeps the key it had; a
\* search that missed makes a new node (the reverse map is never iterated
\* and its nodes are kept by the bytes of their keys).
InsertReverse(S, document_id, word, inv_word_count, r) ==
    LET rev == S.word_to_document_freqs_
        old(freqs) == IF document_id \in DOMAIN freqs THEN freqs[document_id] ELSE ZeroFreq
    IN  [S EXCEPT !.word_to_document_freqs_ =
            IF r.kind = "found"
            THEN [i \in DOMAIN rev |->
                    IF i = r.pos
                    THEN [key |-> rev[i].key, data |-> rev[i].data,
                          freqs |-> (document_id :>
                                        FracAdd(old(rev[i].freqs), inv_word_count))
                                    @@ rev[i].freqs]
                    ELSE rev[i]]
            ELSE InsertAt(rev, SortedPos(rev, word),
                          [key |-> word, data |-> {document_id},
                           freqs |-> (document_id :> FracAdd(ZeroFreq, inv_word_count))])]

\* Line 31, document_to_word_freqs_[document_id][word] += inv_word_count, f
\* the outcome of the search of operator[] in the map of the document: as
\* line 30, a new node taking place fpos of the iteration order.
InsertForward(S, document_id, word, inv_word_count, f, fpos) ==
    LET fwd == S.document_to_word_freqs_
        inner == IF document_id \in DOMAIN fwd THEN fwd[document_id] ELSE EmptyMap
    IN  [S EXCEPT !.document_to_word_freqs_ =
            (document_id :>
                IF f.kind = "found"
                THEN [i \in DOMAIN inner |->
                        IF i = f.pos
                        THEN [key |-> inner[i].key, data |-> inner[i].data,
                              freq |-> FracAdd(inner[i].freq, inv_word_count)]
                        ELSE inner[i]]
                ELSE InsertAt(inner, fpos,
                              [key |-> word, data |-> {document_id},
                               freq |-> FracAdd(ZeroFreq, inv_word_count)]))
            @@ fwd]

\* The outcomes of lines 29-33 from position i of words.  The probes view
\* the text just stored and are live; the keys they are compared with can
\* dangle.  A fault in the search of line 30 leaves what the turns before
\* left; a fault in the search of line 31 comes after line 30 has added to
\* the reverse map.
RECURSIVE InsertLoop(_, _, _, _, _)
InsertLoop(S, document_id, words, i, inv_word_count) ==
    IF i > Len(words)
    THEN {[S |-> [S EXCEPT !.document_ids_ = S.document_ids_ \cup {document_id}],
           out |-> "ok", what |-> ""]}
    ELSE UNION {
            IF r.kind = "crash"
            THEN {[S |-> S, out |-> "crash", what |-> ""]}
            ELSE LET S30 == InsertReverse(S, document_id, words[i], inv_word_count, r)
                     word_freqs == GetWordFrequencies(S30, document_id)
                 IN  UNION {
                        IF f.kind = "crash"
                        THEN {[S |-> S30, out |-> "crash", what |-> ""]}
                        ELSE UNION {InsertLoop(InsertForward(S30, document_id, words[i],
                                                             inv_word_count, f, fpos),
                                               document_id, words, i + 1, inv_word_count) :
                                    fpos \in IF f.kind = "found" THEN {f.pos}
                                             ELSE InsertPositions(word_freqs, words[i])} :
                        f \in FindOutcomes(word_freqs, words[i], FALSE)} :
            r \in FindOutcomes(S.word_to_document_freqs_, words[i], FALSE)}

\* The outcomes of AddDocument: [S, out, what], S the index it leaves.
\*   out = "ok"                 it returned
\*   out = "invalid_argument"   it threw, what names the message
\*   out = "crash"              a read of destroyed text faulted
AddDocumentOutcomes(S, document_id, document, status, ratings) ==
    IF InvalidDocumentId(S, document_id)
    THEN {[S |-> S, out |-> "invalid_argument", what |-> "Invalid document_id"]}
    ELSE LET S1 == Emplace(S, document_id,
                       [rating |-> ComputeAverageRating(ratings),
                        status |-> status, text |-> document])
             split == SplitIntoWordsNoStop(S1.documents_[document_id].text)
             words == split.words
         IN  IF split.err # "none"
             THEN {[S |-> S1, out |-> "invalid_argument", what |-> "Word is invalid"]}
             ELSE InsertLoop(S1, document_id, words, 1, InvWordCount(words))

(***************************************************************************)
(* RemoveDocument, the sequenced policy                                    *)
(***************************************************************************)
\* word_to_document_freqs_.at(word).erase(document_id), at(word) having
\* ended at the node at position pos.
EraseFromWord(S, pos, document_id) ==
    LET rev == S.word_to_document_freqs_
    IN  [S EXCEPT !.word_to_document_freqs_ =
            [i \in DOMAIN rev |->
                IF i = pos
                THEN [key |-> rev[i].key, data |-> rev[i].data,
                      freqs |-> Erase(rev[i].freqs, document_id)]
                ELSE rev[i]]]

\* Lines 202-203 (217-218): the id and the metadata go first, and with the
\* metadata the text every key of the document points into.
EraseDocument(S, document_id) ==
    DestroyText([S EXCEPT !.document_ids_ = S.document_ids_ \ {document_id},
                          !.documents_ = Erase(S.documents_, document_id)],
                document_id)

\* The outcomes of the loop of lines 205-207 from node i of the map of the
\* document.  The probe is the key of the node and views the text line 203
\* destroyed: at(word) ends at a node of the word, at another node, at no
\* node (it throws out_of_range), or the read faults.
RECURSIVE RemoveLoop(_, _, _)
RemoveLoop(S, document_id, i) ==
    LET word_freqs == S.document_to_word_freqs_[document_id]
    IN  IF i > Len(word_freqs)
        THEN {[S |-> [S EXCEPT !.document_to_word_freqs_ =
                          Erase(S.document_to_word_freqs_, document_id)],
               out |-> "ok", what |-> ""]}
        ELSE UNION {
                CASE r.kind = "crash" ->
                        {[S |-> S, out |-> "crash", what |-> ""]}
                  [] r.kind = "miss" ->
                        {[S |-> S, out |-> "out_of_range", what |-> "map::at"]}
                  [] OTHER ->
                        RemoveLoop(EraseFromWord(S, r.pos, document_id),
                                   document_id, i + 1) :
                r \in FindOutcomes(S.word_to_document_freqs_, word_freqs[i].key,
                                   Dangling(word_freqs[i]))}

\* The outcomes of RemoveDocument: [S, out, what].
\*   out = "ok"             it returned
\*   out = "out_of_range"   at() threw, the caller gets the exception
\*   out = "crash"          a read of destroyed text faulted
RemoveDocumentOutcomes(S, document_id) ==
    IF document_id \notin DOMAIN S.document_to_word_freqs_
    THEN {[S |-> S, out |-> "ok", what |-> ""]}
    ELSE RemoveLoop(EraseDocument(S, document_id), document_id, 1)

(***************************************************************************)
(* RemoveDuplicates (test_example_functions.cpp)                           *)
(***************************************************************************)
\* The words of the live keys of a map.
LiveKeys(m) == {m[i].key : i \in DOMAIN m \ DanglingNodes(m)}

\* Two sets of views can compare equal: one of the live words with
\* dangling dangling views beside them, and an entry of existing_docs of
\* the live words entry_live with entry_dangling dangling views.  Live
\* views compare by their bytes; a dangling view reads as any bytes, those
\* of another view included.
CanReadEqual(live, dangling, entry_live, entry_dangling) ==
    /\ (live = {} /\ dangling = 0) = (entry_live = {} /\ entry_dangling = 0)
    /\ Cardinality(live \ entry_live) <= entry_dangling
    /\ Cardinality(entry_live \ live) <= dangling

\* The scan of lines 65-80 over the ids left, with existing_docs and
\* found_duplicates so far; tainted: the entries of existing_docs that hold
\* dangling views, [live, dangling].  Building the set of a document's
\* words and looking it up in existing_docs compare views; with a dangling
\* view among them the comparison reads destroyed text: the lookup can miss
\* an equal entry, can take an entry for equal that reads equal, and can
\* fault.  Outcomes: [found, out].
RECURSIVE ScanForDuplicates(_, _, _, _, _)
ScanForDuplicates(S, ids, existing_docs, found_duplicates, tainted) ==
    IF ids = <<>>
    THEN {[found |-> found_duplicates, out |-> "ok"]}
    ELSE LET document_id == Head(ids)
             freqs == GetWordFrequencies(S, document_id)
             words == Keys(freqs)
             live == LiveKeys(freqs)
             dangling == Cardinality(DanglingNodes(freqs))
             reads == \/ tainted # {}
                      \/ /\ dangling > 0
                         /\ existing_docs # {} \/ Len(freqs) > 1
             reads_equal ==
                 \/ \E e \in tainted :
                       CanReadEqual(live, dangling, e.live, e.dangling)
                 \/ /\ dangling > 0
                    /\ \E e \in existing_docs : CanReadEqual(live, dangling, e, 0)
             answers == (IF words \in existing_docs \/ reads_equal
                         THEN {TRUE} ELSE {})
                        \cup
                        (IF words \notin existing_docs \/ reads
                         THEN {FALSE} ELSE {})
         IN  UNION {IF count
                    THEN ScanForDuplicates(S, Tail(ids), existing_docs,
                             Append(found_duplicates, document_id), tainted)
                    ELSE ScanForDuplicates(S, Tail(ids), existing_docs \cup {words},
                             found_duplicates,
                             IF dangling = 0 THEN tainted
                             ELSE tainted \cup {[live |-> live,
                                                 dangling |-> dangling]}) :
                    count \in answers}
             \cup (IF reads
                   THEN {[found |-> found_duplicates, out |-> "crash"]}
                   ELSE {})

FoundDuplicates(S) == ScanForDuplicates(S, DocumentIds(S), {}, <<>>, {})

\* The loop of lines 82-84: an exception of RemoveDocument ends it.
RECURSIVE RemoveAll(_, _)
RemoveAll(S, ids) ==
    IF ids = <<>> THEN {[S |-> S, out |-> "ok", what |-> ""]}
    ELSE UNION {IF o.out = "ok" THEN RemoveAll(o.S, Tail(ids)) ELSE {o} :
                o \in RemoveDocumentOutcomes(S, Head(ids))}

\* The outcomes of RemoveDuplicates: [S, out, what, found], found the ids
\* the scan reported.
RemoveDuplicatesOutcomes(S) ==
    UNION {IF scan.out = "crash"
           THEN {[S |-> S, out |-> "crash", what |-> "", found |-> scan.found]}
           ELSE {[S |-> o.S, out |-> o.out, what |-> o.what, found |-> scan.found] :
                 o \in RemoveAll(S, scan.found)} :
           scan \in FoundDuplicates(S)}

(***************************************************************************)
(* The inputs of the model.                                                *)
(***************************************************************************)
DocIds == (-1)..MaxDocId

\* "a", "a b", "s" (the stop word) and "a <TAB>".
DocTexts ==
    {<<97>>, <<97, 32, 98>>, <<115>>, <<97, 32, 9>>}

Statuses == {"ACTIVE", "BANNED"}

RatingLists == {<<>>, <<7, -2>>}

(***************************************************************************)
(* The calls on the index.  A call made while the caller is idle leaves    *)
(* its outcome in last; Return hands control back to the caller.           *)
(***************************************************************************)
NoCall == [op |-> "none"]

SetIndex(S) ==
    /\ documents_' = S.documents_
    /\ document_ids_' = S.document_ids_
    /\ word_to_document_freqs_' = S.word_to_document_freqs_
    /\ document_to_word_freqs_' = S.document_to_word_freqs_

\* Where the caller is after a call that ended with outcome o.  An
\* exception reaches the caller, who goes on; a fault and std::terminate
\* end the program.
After(o) ==
    CASE o.out = "terminate" -> "terminated"
      [] o.out = "crash" -> "crashed"
      [] OTHER -> "returned"

Init ==
    /\ documents_ = EmptyMap
    /\ document_ids_ = {}
    /\ word_to_document_freqs_ = EmptyMap
    /\ document_to_word_freqs_ = EmptyMap
    /\ pc = "idle"
    /\ call = NoCall
    /\ last = NoCall
    /\ add_calls = 0

\* AddDocument on inputs from the sets given, as one of at most max_calls
\* calls.
AddDocumentOf(texts, statuses, rating_lists, max_calls) ==
    /\ pc = "idle"
    /\ add_calls < max_calls
    /\ add_calls' = add_calls + 1
    /\ \E document_id \in DocIds, document \in texts,
          status \in statuses, ratings \in rating_lists :
          \E o \in AddDocumentOutcomes(Index, document_id, document, status, ratings) :
             /\ SetIndex(o.S)
             /\ pc' = After(o)
             /\ last' = [op |-> "AddDocument", id |-> document_id,
                         out |-> o.out, what |-> o.what]
    /\ UNCHANGED call

AddDocument == AddDocumentOf(DocTexts, {"ACTIVE"}, {<<7, -2>>}, MaxAddCalls)

RemoveDocumentSeq ==
    /\ pc = "idle"
    /\ \E document_id \in DocIds :
          \E o \in RemoveDocumentOutcomes(Index, document_id) :
             /\ SetIndex(o.S)
             /\ pc' = After(o)
             /\ last' = [op |-> "RemoveDocument", id |-> document_id,
                         out |-> o.out, what |-> o.what]
    /\ UNCHANGED <<call, add_calls>>

\* RemoveDocument(execution::par, id), lines 213-219: the guard, the two
\* erasures and the vector the copies go to.
RemoveDocumentParBegin ==
    /\ pc = "idle"
    /\ \E document_id \in DocIds :
          IF document_id \notin DOMAIN document_to_word_freqs_
          THEN /\ pc' = "returned"
               /\ last' = [op |-> "RemoveDocumentPar", id |-> document_id,
                           out |-> "ok", what |-> "", pre |-> Index]
               /\ UNCHANGED <<index, call>>
          ELSE /\ SetIndex(EraseDocument(Index, document_id))
               /\ pc' = "remove_transform"
               /\ call' = [op |-> "RemoveDocumentPar", id |-> document_id,
                           pre |-> Index,
                           word_freqs |->
                               [i \in DOMAIN document_to_word_freqs_[document_id] |->
                                   document_to_word_freqs_[document_id][i].key],
                           words |-> [i \in {} |-> <<>>],
                           erased |-> {},
                           nodes |-> [i \in {} |-> 0]]
               /\ UNCHANGED last
    /\ UNCHANGED add_calls

\* One element of the transform of lines 220-225: the key is copied, its
\* text is not read.
RemoveDocumentParTransform ==
    /\ pc = "remove_transform"
    /\ \E i \in (1..Len(call.word_freqs)) \ DOMAIN call.words :
          call' = [call EXCEPT !.words = (i :> call.word_freqs[i]) @@ call.words]
    /\ UNCHANGED <<index, pc, last, add_calls>>

\* One element of the for_each of lines 226-231, once the transform is
\* through: at(word) as in the sequenced loop; nodes records the node each
\* element erased from.  An exception that leaves the element function of a
\* parallel algorithm ends the program with std::terminate.
RemoveDocumentParForEach ==
    /\ pc = "remove_transform"
    /\ DOMAIN call.words = 1..Len(call.word_freqs)
    /\ \E i \in DOMAIN call.words \ call.erased :
          \E r \in FindOutcomes(word_to_document_freqs_, call.words[i],
                      Dangling(document_to_word_freqs_[call.id][i])) :
             CASE r.kind = "found" ->
                    /\ SetIndex(EraseFromWord(Index, r.pos, call.id))
                    /\ call' = [call EXCEPT !.erased = call.erased \cup {i},
                                            !.nodes = (i :> r.pos) @@ call.nodes]
                    /\ UNCHANGED <<pc, last>>
               [] r.kind = "miss" ->
                    /\ pc' = "terminated"
                    /\ last' = [op |-> "RemoveDocumentPar", id |-> call.id,
                                out |-> "terminate", what |-> "map::at",
                                pre |-> call.pre]
                    /\ UNCHANGED <<index, call>>
               [] OTHER ->
                    /\ pc' = "crashed"
                    /\ last' = [op |-> "RemoveDocumentPar", id |-> call.id,
                                out |-> "crash", what |-> "", pre |-> call.pre]
                    /\ UNCHANGED <<index, call>>
    /\ UNCHANGED add_calls

\* Line 233, after the for_each.
RemoveDocumentParEnd ==
    /\ pc = "remove_transform"
    /\ DOMAIN call.words = 1..Len(call.word_freqs)
    /\ call.erased = DOMAIN call.words
    /\ SetIndex([Index EXCEPT !.document_to_word_freqs_ =
                     Erase(document_to_word_freqs_, call.id)])
    /\ pc' = "returned"
    /\ last' = [op |-> "RemoveDocumentPar", id |-> call.id,
                out |-> "ok", what |-> "", pre |-> call.pre]
    /\ call' = NoCall
    /\ UNCHANGED add_calls

RemoveDuplicates ==
    /\ pc = "idle"
    /\ \E o \in RemoveDuplicatesOutcomes(Index) :
          /\ SetIndex(o.S)
          /\ pc' = After(o)
          /\ last' = [op |-> "RemoveDuplicates", out |-> o.out, what |-> o.what,
                      found |-> o.found]
    /\ UNCHANGED <<call, add_calls>>

Return ==
    /\ pc = "returned"
    /\ pc' = "idle"
    /\ call' = NoCall
    /\ last' = NoCall
    /\ UNCHANGED <<index, add_calls>>

Next ==
    \/ AddDocument
    \/ RemoveDocumentSeq
    \/ RemoveDocumentParBegin
    \/ RemoveDocumentParTransform
    \/ RemoveDocumentParForEach
    \/ RemoveDocumentParEnd
    \/ RemoveDuplicates
    \/ Return

Spec == Init /\ [][Next]_vars

\* "a", "b" and "s" (the stop word).
ShortTexts == {<<97>>, <<98>>, <<115>>}

AddShortDocument == AddDocumentOf(ShortTexts, {"ACTIVE"}, {<<>>}, MaxShortAddCalls)

NextDuplicates ==
    \/ AddShortDocument
    \/ RemoveDocumentSeq
    \/ RemoveDuplicates
    \/ Return

SpecDuplicates == Init /\ [][NextDuplicates]_vars

(***************************************************************************)
(* Properties of the index operations, checked under Spec.                 *)
(***************************************************************************)
\* The documents the node of the reverse map at position pos lists.
Postings(S, pos) == DOMAIN S.word_to_document_freqs_[pos].freqs

\* The posting set of a term: the documents the nodes of the term in the
\* reverse map list.
PostingSet(S, word) ==
    UNION {Postings(S, i) : i \in NodesOf(S.word_to_document_freqs_, word)}

SamePostingSets(S, T) ==
    \A word \in Keys(S.word_to_document_freqs_) \cup Keys(T.word_to_document_freqs_) :
        PostingSet(S, word) = PostingSet(T, word)

\* The term set of a document as GetWordFrequencies reports it.
TermSet(S, document_id) == Keys(GetWordFrequencies(S, document_id))

\* C1: an AddDocument that fails on a word with a control character leaves
\* the document count, the id sequence, the metadata map, the forward map
\* and the reverse map as they were before the call.
C1_InvalidWordLeavesIndexUnmodified ==
    [][(pc = "idle" /\ last'.op = "AddDocument" /\ last'.what = "Word is invalid")
       => /\ GetDocumentCount(Index') = GetDocumentCount(Index)
          /\ DocumentIds(Index') = DocumentIds(Index)
          /\ index' = index]_vars

\* C2: in every state between calls, for every document AddDocument accepts,
\* AddDocument(id, ...) followed by RemoveDocument(id) returns and restores
\* the document count, the id sequence and every term's posting set.
C2_InsertRemoveRoundTrip ==
    pc = "idle" =>
        \A document_id \in DocIds, document \in DocTexts,
           status \in Statuses, ratings \in RatingLists :
            \A a \in AddDocumentOutcomes(Index, document_id, document, status, ratings) :
                a.out = "ok" =>
                    \A r \in RemoveDocumentOutcomes(a.S, document_id) :
                        /\ r.out = "ok"
                        /\ GetDocumentCount(r.S) = GetDocumentCount(Index)
                        /\ DocumentIds(r.S) = DocumentIds(Index)
                        /\ SamePostingSets(r.S, Index)

\* C3: an AddDocument with a negative id or with an id already present ends
\* with the invalid-document-id error, and count, id sequence, metadata,
\* forward map and reverse map are after the call what they were before.
C3_InvalidIdRejectedWithoutMutation ==
    [][(/\ pc = "idle"
        /\ last'.op = "AddDocument"
        /\ \/ last'.id < 0
           \/ last'.id \in document_ids_
           \/ last'.id \in DOMAIN documents_
           \/ last'.what = "Invalid document_id")
       => /\ last'.out = "invalid_argument"
          /\ last'.what = "Invalid document_id"
          /\ GetDocumentCount(Index') = GetDocumentCount(Index)
          /\ DocumentIds(Index') = DocumentIds(Index)
          /\ index' = index]_vars

\* C3 witness: a second AddDocument of an id that is in the index was
\* rejected.
C3_Witness ==
    /\ last.op = "AddDocument"
    /\ last.what = "Invalid document_id"
    /\ last.id \in document_ids_

\* C5: a parallel RemoveDocument ends as the sequenced RemoveDocument of the
\* same id on the same index ends, and leaves the index it leaves.
C5_ParallelRemoveAsSequential ==
    last.op = "RemoveDocumentPar" =>
        \A o \in RemoveDocumentOutcomes(last.pre, last.id) :
            o.out = last.out /\ o.S = Index

\* C7: RemoveDuplicates removes no document that is the lowest id among the
\* documents with its term set.
C7_LowestOfClassSurvives ==
    [][(pc = "idle" /\ last'.op = "RemoveDuplicates")
       => \A d \in document_ids_ :
              (\A e \in document_ids_ : TermSet(Index, e) = TermSet(Index, d) => d <= e)
                  => d \in document_ids_']_vars

\* C8: when RemoveDuplicates has returned, every id its scan marked is out
\* of the index, no two ids left have the same term set, and a second
\* RemoveDuplicates would change nothing.
C8_NoDuplicatesLeft ==
    (pc = "returned" /\ last.op = "RemoveDuplicates" /\ last.out = "ok") =>
        /\ \A d \in Range(last.found) : d \notin document_ids_
        /\ \A d, e \in document_ids_ :
               TermSet(Index, d) = TermSet(Index, e) => d = e
        /\ \A o \in RemoveDuplicatesOutcomes(Index) : o.S = Index


(***************************************************************************)
(* MatchDocument                                                           *)
(***************************************************************************)
\* Lines 66-71 (77-82) for one word: count(word), then at(word).count(id).
\* The probe views the query text and is live.
\*   "absent"  count(word) == 0
\*   "throw"   at(word) missed after count(word) had found a node
\*   "in", "out"  whether the postings of the node at(word) ended at hold
\*             the document
\*   "crash"   a read of destroyed text faulted
SeqWordCheck(S, word, document_id) ==
    UNION {CASE counted.kind = "crash" -> {"crash"}
             [] counted.kind = "miss" -> {"absent"}
             [] OTHER ->
                    {CASE found.kind = "crash" -> "crash"
                       [] found.kind = "miss" -> "throw"
                       [] OTHER -> IF document_id \in Postings(S, found.pos)
                                   THEN "in" ELSE "out" :
                     found \in FindOutcomes(S.word_to_document_freqs_, word, FALSE)}
           : counted \in FindOutcomes(S.word_to_document_freqs_, word, FALSE)}

\* The loop of lines 76-83 from position i of plus_words.
RECURSIVE MatchPlusLoop(_, _, _, _, _, _)
MatchPlusLoop(S, document_id, status, plus_words, i, matched_words) ==
    IF i > Len(plus_words)
    THEN {[out |-> "ok", words |-> matched_words, status |-> status]}
    ELSE UNION {
           CASE c = "throw" ->
                    {[out |-> "out_of_range", words |-> <<>>, status |-> status]}
             [] c = "crash" ->
                    {[out |-> "crash", words |-> <<>>, status |-> status]}
             [] OTHER ->
                    MatchPlusLoop(S, document_id, status, plus_words, i + 1,
                                  IF c = "in"
                                  THEN Append(matched_words, plus_words[i])
                                  ELSE matched_words)
           : c \in SeqWordCheck(S, plus_words[i], document_id)}

\* The loop of lines 65-72 from position i of minus_words, then the rest.
RECURSIVE MatchMinusLoop(_, _, _, _, _)
MatchMinusLoop(S, document_id, status, query, i) ==
    IF i > Len(query.minus_words)
    THEN MatchPlusLoop(S, document_id, status, query.plus_words, 1, <<>>)
    ELSE UNION {
           CASE c = "throw" ->
                    {[out |-> "out_of_range", words |-> <<>>, status |-> status]}
             [] c = "crash" ->
                    {[out |-> "crash", words |-> <<>>, status |-> status]}
             [] c = "in" ->
                    {[out |-> "ok", words |-> <<>>, status |-> status]}
             [] OTHER ->
                    MatchMinusLoop(S, document_id, status, query, i + 1)
           : c \in SeqWordCheck(S, query.minus_words[i], document_id)}

\* The outcomes of MatchDocument(execution::seq, raw_query, document_id):
\* [out, words, status].
MatchDocumentOutcomes(S, raw_query, document_id) ==
    LET query == ParseQuery(raw_query, FALSE)
    IN  IF query.err # "none"
        THEN {[out |-> "invalid_argument", words |-> <<>>, status |-> ""]}
        ELSE IF document_id \notin DOMAIN S.documents_
        THEN {[out |-> "out_of_range", words |-> <<>>, status |-> ""]}
        ELSE MatchMinusLoop(S, document_id, S.documents_[document_id].status,
                            query, 1)

\* What word_checker (lines 92-96) can answer for word: [hit, crash];
\* find(word), then the postings of the node it ended at.
WordChecker(S, word, document_id) ==
    {[hit |-> found.kind = "found" /\ document_id \in Postings(S, found.pos),
      crash |-> found.kind = "crash"]
     : found \in FindOutcomes(S.word_to_document_freqs_, word, FALSE)}

\* The elements of s at the positions keep holds, in the order of s (what
\* copy_if leaves in front of words_end).
RECURSIVE CopyIf(_, _, _)
CopyIf(s, keep, i) ==
    IF i > Len(s) THEN <<>>
    ELSE (IF keep[i] THEN <<s[i]>> ELSE <<>>) \o CopyIf(s, keep, i + 1)

\* "a", "b a a", "a -b", "a -" and "s b".
QueryTexts ==
    {<<97>>, <<98, 32, 97, 32, 97>>, <<97, 32, 45, 98>>, <<97, 32, 45>>,
     <<115, 32, 98>>}

\* "a", "a b" and "a <TAB>".
MatchTexts == {<<97>>, <<97, 32, 98>>, <<97, 32, 9>>}

AddDocumentToMatch == AddDocumentOf(MatchTexts, Statuses, {<<>>}, MaxAddCalls)

MatchDocumentSeq ==
    /\ pc = "idle"
    /\ \E raw_query \in QueryTexts, document_id \in DocIds :
          \E o \in MatchDocumentOutcomes(Index, raw_query, document_id) :
             /\ pc' = After(o)
             /\ last' = [op |-> "MatchDocument", id |-> document_id,
                         raw_query |-> raw_query, out |-> o.out,
                         words |-> o.words, status |-> o.status]
    /\ UNCHANGED <<index, call, add_calls>>

\* MatchDocument(execution::par, ...), lines 88-90: the query unsorted, the
\* status of the document.
MatchDocumentParBegin ==
    /\ pc = "idle"
    /\ \E raw_query \in QueryTexts, document_id \in DocIds :
          LET query == ParseQuery(raw_query, TRUE)
              failed(out) ==
                  /\ pc' = "returned"
                  /\ last' = [op |-> "MatchDocumentPar", id |-> document_id,
                              raw_query |-> raw_query, out |-> out,
                              words |-> <<>>, status |-> ""]
                  /\ UNCHANGED call
          IN  IF query.err # "none" THEN failed("invalid_argument")
              ELSE IF document_id \notin DOMAIN documents_ THEN failed("out_of_range")
              ELSE /\ pc' = "match_any_of"
                   /\ call' = [op |-> "MatchDocumentPar", id |-> document_id,
                               raw_query |-> raw_query, query |-> query,
                               status |-> documents_[document_id].status,
                               minus_hit |-> [i \in {} |-> FALSE],
                               plus_hit |-> [i \in {} |-> FALSE]]
                   /\ UNCHANGED last
    /\ UNCHANGED <<index, add_calls>>

\* A fault in an element of a parallel algorithm of MatchDocument.
MatchDocumentParCrash ==
    /\ pc' = "crashed"
    /\ last' = [op |-> "MatchDocumentPar", id |-> call.id,
                raw_query |-> call.raw_query, out |-> "crash",
                words |-> <<>>, status |-> call.status]
    /\ UNCHANGED call

\* One element of the any_of of line 98.
MatchDocumentParAnyOf ==
    /\ pc = "match_any_of"
    /\ \E i \in (1..Len(call.query.minus_words)) \ DOMAIN call.minus_hit :
          \E c \in WordChecker(Index, call.query.minus_words[i], call.id) :
             IF c.crash THEN MatchDocumentParCrash
             ELSE /\ call' = [call EXCEPT
                                 !.minus_hit = (i :> c.hit) @@ call.minus_hit]
                  /\ UNCHANGED <<pc, last>>
    /\ UNCHANGED <<index, add_calls>>

\* any_of answers: true as soon as an element answered true, false when
\* every element has answered false (lines 98-102).
MatchDocumentParAnyOfEnd ==
    /\ pc = "match_any_of"
    /\ IF \E i \in DOMAIN call.minus_hit : call.minus_hit[i]
       THEN /\ pc' = "returned"
            /\ last' = [op |-> "MatchDocumentPar", id |-> call.id,
                        raw_query |-> call.raw_query, out |-> "ok",
                        words |-> <<>>, status |-> call.status]
            /\ call' = NoCall
       ELSE /\ DOMAIN call.minus_hit = 1..Len(call.query.minus_words)
            /\ pc' = "match_copy_if"
            /\ UNCHANGED <<call, last>>
    /\ UNCHANGED <<index, add_calls>>

\* One element of the copy_if of lines 103-108.
MatchDocumentParCopyIf ==
    /\ pc = "match_copy_if"
    /\ \E i \in (1..Len(call.query.plus_words)) \ DOMAIN call.plus_hit :
          \E c \in WordChecker(Index, call.query.plus_words[i], call.id) :
             IF c.crash THEN MatchDocumentParCrash
             ELSE /\ call' = [call EXCEPT
                                 !.plus_hit = (i :> c.hit) @@ call.plus_hit]
                  /\ UNCHANGED <<pc, last>>
    /\ UNCHANGED <<index, add_calls>>

\* Lines 109-113: sort, unique, erase and the result.
MatchDocumentParEnd ==
    /\ pc = "match_copy_if"
    /\ DOMAIN call.plus_hit = 1..Len(call.query.plus_words)
    /\ pc' = "returned"
    /\ last' = [op |-> "MatchDocumentPar", id |-> call.id,
                raw_query |-> call.raw_query, out |-> "ok",
                words |-> Unique(Sort(CopyIf(call.query.plus_words, call.plus_hit, 1))),
                status |-> call.status]
    /\ call' = NoCall
    /\ UNCHANGED <<index, add_calls>>

NextMatch ==
    \/ AddDocumentToMatch
    \/ RemoveDocumentSeq
    \/ MatchDocumentSeq
    \/ MatchDocumentParBegin
    \/ MatchDocumentParAnyOf
    \/ MatchDocumentParAnyOfEnd
    \/ MatchDocumentParCopyIf
    \/ MatchDocumentParEnd
    \/ Return

SpecMatch == Init /\ [][NextMatch]_vars

\* C4: a parallel MatchDocument ends as the sequenced MatchDocument of the
\* same query and id on the same index ends: the same outcome, and on
\* success the same status and the same list of words.
C4_ParallelMatchAsSequential ==
    last.op = "MatchDocumentPar" =>
        \A o \in MatchDocumentOutcomes(Index, last.raw_query, last.id) :
            /\ o.out = last.out
            /\ o.out = "ok" => (o.status = last.status /\ o.words = last.words)

\* C6: MatchDocument on a query that parses fails when the id is not in the
\* index; returns no words and the status when the postings of a minus word
\* hold the id; otherwise returns the plus words whose postings hold the id,
\* each once, ascending, and the status.
C6_MatchDocumentResult ==
    (last.op = "MatchDocument" /\ ParseQuery(last.raw_query, FALSE).err = "none") =>
        LET query == ParseQuery(last.raw_query, FALSE)
        IN  IF last.id \notin document_ids_
            THEN last.out = "out_of_range"
            ELSE /\ last.out = "ok"
                 /\ last.status = documents_[last.id].status
                 /\ last.words =
                      IF \E w \in Range(query.minus_words) :
                             last.id \in PostingSet(Index, w)
                      THEN <<>>
                      ELSE SortedSeq({w \in Range(query.plus_words) :
                                         last.id \in PostingSet(Index, w)})

(***************************************************************************)
(* FindTopDocuments and ProcessQueries                                      *)
(***************************************************************************)
\* The natural logarithm of n in millionths, for the counts the model
\* reaches.
LnMicroOf(n) ==
    CASE n = 1 -> 0
      [] n = 2 -> 693147
      [] n = 3 -> 1098612
      [] n = 4 -> 1386294

\* The natural logarithm of n/d in millionths, n and d positive.
LnMicro(n, d) == LnMicroOf(n) - LnMicroOf(d)

\* log(n * 1.0 / d) of the doubles of the counts n and d: [class, value].
\* 0.0 / 0 is NaN and its logarithm NaN, n / 0 is infinity and its
\* logarithm infinity, the logarithm of 0 / d is minus infinity.
Log(n, d) ==
    CASE n = 0 /\ d = 0 -> [class |-> "nan", value |-> 0]
      [] d = 0 -> [class |-> "+inf", value |-> 0]
      [] n = 0 -> [class |-> "-inf", value |-> 0]
      [] OTHER -> [class |-> "finite", value |-> LnMicro(n, d)]

\* Line 190 once at(word) has ended at the node at position pos:
\* log(GetDocumentCount() * 1.0 / word_to_document_freqs_.at(word).size())
ComputeWordInverseDocumentFreq(S, pos) ==
    Log(GetDocumentCount(S), Cardinality(Postings(S, pos)))

\* The outcomes of ComputeWordInverseDocumentFreq(word): [out, class,
\* value].  at(word) throws out_of_range when it ends at no node; a read of
\* destroyed text can fault; otherwise the logarithm of line 190 for the
\* node at(word) ended at.
ComputeWordInverseDocumentFreqOutcomes(S, word) ==
    {CASE found.kind = "crash" -> [out |-> "crash", class |-> "none", value |-> 0]
       [] found.kind = "miss" -> [out |-> "out_of_range", class |-> "none", value |-> 0]
       [] OTHER ->
            LET idf == ComputeWordInverseDocumentFreq(S, found.pos)
            IN  [out |-> "ok", class |-> idf.class, value |-> idf.value]
     : found \in FindOutcomes(S.word_to_document_freqs_, word, FALSE)}

\* The most documents a search returns.
MaxResultCount == 5

\* The status a search selects when it is given none.
DefaultStatus == "ACTIVE"

\* A relevance is a double, [class, value] as Log gives them.
ZeroRelevance == [class |-> "finite", value |-> 0]

\* Term frequency times inverse document frequency.  A term frequency is
\* positive and finite, so that a product with an infinity or a NaN is
\* that infinity or NaN.
TimesFreq(freq, idf) ==
    IF idf.class = "finite"
    THEN [class |-> "finite", value |-> (freq.num * idf.value) \div freq.den]
    ELSE [class |-> idf.class, value |-> 0]

\* The sum of two doubles.
AddRelevance(a, b) ==
    CASE a.class = "nan" \/ b.class = "nan" -> [class |-> "nan", value |-> 0]
      [] a.class = "finite" /\ b.class = "finite" ->
            [class |-> "finite", value |-> a.value + b.value]
      [] a.class = "finite" -> b
      [] b.class = "finite" -> a
      [] a.class = b.class -> a
      [] OTHER -> [class |-> "nan", value |-> 0]

\* The postings a search reads for a word of the query: the word is looked
\* up in the reverse map, and the postings are read with at(word) when it
\* is there.  Both searches compare the word, which views the query text
\* and is live, with the keys of the reverse map.  Outcomes: [out, pos].
\*   "absent"        the word is not in the map, the search skips it
\*   "ok"            pos is the node whose postings are read
\*   "out_of_range"  at(word) ended at no node
\*   "crash"         a read of destroyed text faulted
PostingsLookup(S, word) ==
    UNION {CASE counted.kind = "crash" -> {[out |-> "crash", pos |-> 0]}
             [] counted.kind = "miss" -> {[out |-> "absent", pos |-> 0]}
             [] OTHER ->
                    {CASE found.kind = "crash" -> [out |-> "crash", pos |-> 0]
                       [] found.kind = "miss" -> [out |-> "out_of_range", pos |-> 0]
                       [] OTHER -> [out |-> "ok", pos |-> found.pos]
                     : found \in FindOutcomes(S.word_to_document_freqs_, word, FALSE)}
           : counted \in FindOutcomes(S.word_to_document_freqs_, word, FALSE)}

\* Step 1 for the postings of the node at pos, ids the documents of its
\* postings left, in ascending order: a document of the status gets term
\* frequency times idf added to its relevance.  A posting of an id that has
\* no metadata names no document: the search passes it, or fails as at()
\* of the metadata map fails.  Outcomes: [out, rel].
RECURSIVE AddPostings(_, _, _, _, _, _)
AddPostings(S, pos, idf, status, ids, rel) ==
    IF ids = <<>> THEN {[out |-> "ok", rel |-> rel]}
    ELSE LET document_id == Head(ids)
             freq == S.word_to_document_freqs_[pos].freqs[document_id]
             old == IF document_id \in DOMAIN rel THEN rel[document_id] ELSE ZeroRelevance
         IN  IF document_id \notin DOMAIN S.documents_
             THEN {[out |-> "out_of_range", rel |-> rel]}
                  \cup AddPostings(S, pos, idf, status, Tail(ids), rel)
             ELSE IF S.documents_[document_id].status # status
             THEN AddPostings(S, pos, idf, status, Tail(ids), rel)
             ELSE AddPostings(S, pos, idf, status, Tail(ids),
                              (document_id :> AddRelevance(old, TimesFreq(freq, idf)))
                              @@ rel)

\* Step 1 over the plus words from position i, rel the relevance of the
\* documents found so far.  The inverse document frequency is computed by
\* ComputeWordInverseDocumentFreq for a word that is in the reverse map.
\* Outcomes: [out, rel].
RECURSIVE PlusWordsLoop(_, _, _, _, _)
PlusWordsLoop(S, status, plus_words, i, rel) ==
    IF i > Len(plus_words) THEN {[out |-> "ok", rel |-> rel]}
    ELSE UNION {
            CASE p.out = "absent" -> PlusWordsLoop(S, status, plus_words, i + 1, rel)
              [] p.out # "ok" -> {[out |-> p.out, rel |-> rel]}
              [] OTHER ->
                    UNION {
                        IF idf.out # "ok"
                        THEN {[out |-> idf.out, rel |-> rel]}
                        ELSE UNION {
                                IF added.out # "ok"
                                THEN {added}
                                ELSE PlusWordsLoop(S, status, plus_words, i + 1, added.rel) :
                                added \in AddPostings(S, p.pos, idf, status,
                                                      SortedInts(Postings(S, p.pos)), rel)} :
                        idf \in ComputeWordInverseDocumentFreqOutcomes(S, plus_words[i])} :
            p \in PostingsLookup(S, plus_words[i])}

\* Step 1 over the minus words from position i: a document in the postings
\* of a minus word is out of the result.  Outcomes: [out, rel].
RECURSIVE MinusWordsLoop(_, _, _, _)
MinusWordsLoop(S, minus_words, i, rel) ==
    IF i > Len(minus_words) THEN {[out |-> "ok", rel |-> rel]}
    ELSE UNION {
            CASE p.out = "absent" -> MinusWordsLoop(S, minus_words, i + 1, rel)
              [] p.out # "ok" -> {[out |-> p.out, rel |-> rel]}
              [] OTHER ->
                    MinusWordsLoop(S, minus_words, i + 1,
                        [document_id \in DOMAIN rel \ Postings(S, p.pos) |->
                            rel[document_id]]) :
            p \in PostingsLookup(S, minus_words[i])}

\* Step 2: one double is greater than another.  No comparison with a NaN
\* holds.
GreaterRelevance(a, b) ==
    CASE a.class = "nan" \/ b.class = "nan" -> FALSE
      [] a.class = "finite" /\ b.class = "finite" -> a.value > b.value
      [] a.class = "+inf" -> b.class # "+inf"
      [] a.class = "finite" -> b.class = "-inf"
      [] OTHER -> FALSE

\* Step 2: x comes before y.  Relevances that differ by less than a
\* millionth are tied and the higher rating comes first; otherwise the
\* higher relevance does.  The difference of two equal infinities is a NaN
\* and under no tolerance.
Before(x, y) ==
    IF /\ x.relevance.class = "finite"
       /\ y.relevance.class = "finite"
       /\ x.relevance.value = y.relevance.value
    THEN x.rating > y.rating
    ELSE GreaterRelevance(x.relevance, y.relevance)

\* x put into a sorted list: behind the last document it does not come
\* before.
RECURSIVE InsertDocument(_, _)
InsertDocument(sorted, x) ==
    IF sorted = <<>> \/ ~Before(x, sorted[Len(sorted)])
    THEN Append(sorted, x)
    ELSE Append(InsertDocument(SubSeq(sorted, 1, Len(sorted) - 1), x),
                sorted[Len(sorted)])

\* Step 2: the sort; documents neither of which comes before the other
\* stay in the order of their ids.
RECURSIVE SortDocuments(_)
SortDocuments(docs) ==
    IF docs = <<>> THEN <<>>
    ELSE InsertDocument(SortDocuments(SubSeq(docs, 1, Len(docs) - 1)), docs[Len(docs)])

\* Steps 2 and 3 for the documents of rel: sorted and cut to the maximum.
TopDocuments(S, rel) ==
    LET ids == SortedInts(DOMAIN rel)
        sorted == SortDocuments([k \in 1..Len(ids) |->
                                    [id |-> ids[k], relevance |-> rel[ids[k]],
                                     rating |-> S.documents_[ids[k]].rating]])
    IN  SubSeq(sorted, 1, Min(Len(sorted), MaxResultCount))

\* The outcomes of FindTopDocuments(raw_query): [out, docs].
\*   out = "ok"                 it returned docs
\*   out = "invalid_argument"   the query did not parse
\*   out = "out_of_range"       an at() of the search threw
\*   out = "crash"              a read of destroyed text faulted
FindTopDocumentsOutcomes(S, raw_query) ==
    LET query == ParseQuery(raw_query, FALSE)
    IN  IF query.err # "none"
        THEN {[out |-> query.err, docs |-> <<>>]}
        ELSE UNION {
                IF plus.out # "ok"
                THEN {[out |-> plus.out, docs |-> <<>>]}
                ELSE {IF minus.out # "ok"
                      THEN [out |-> minus.out, docs |-> <<>>]
                      ELSE [out |-> "ok", docs |-> TopDocuments(S, minus.rel)] :
                      minus \in MinusWordsLoop(S, query.minus_words, 1, plus.rel)} :
                plus \in PlusWordsLoop(S, DefaultStatus, query.plus_words, 1, EmptyMap)}

\* The transform of lines 10-16 writes the result of queries[i] to
\* documents_lists.begin() + i.
StoreResult(documents_lists, i, documents) ==
    [documents_lists EXCEPT ![i] = documents]

\* "a", "a -b" and "a -".
BatchQueryTexts == {<<97>>, <<97, 32, 45, 98>>, <<97, 32, 45>>}

\* The batches of at most MaxQueries queries.
Batches == UNION {[1..n -> BatchQueryTexts] : n \in 0..MaxQueries}

\* "a" and "a b".
SearchTexts == {<<97>>, <<97, 32, 98>>}

AddDocumentToSearch == AddDocumentOf(SearchTexts, Statuses, RatingLists, MaxAddCalls)

\* ProcessQueries, line 9: one empty list for every query.
ProcessQueriesBegin ==
    /\ pc = "idle"
    /\ \E queries \in Batches :
          call' = [op |-> "ProcessQueries", queries |-> queries,
                   documents_lists |-> [i \in 1..Len(queries) |-> <<>>],
                   done |-> {}]
    /\ pc' = "process_queries"
    /\ UNCHANGED <<index, last, add_calls>>

\* One element of the transform of lines 10-16.  An exception that leaves
\* the element function of a parallel algorithm ends the program with
\* std::terminate.
ProcessQueriesWorker ==
    /\ pc = "process_queries"
    /\ \E i \in (1..Len(call.queries)) \ call.done :
          \E found \in FindTopDocumentsOutcomes(Index, call.queries[i]) :
             IF found.out = "ok"
             THEN /\ call' = [call EXCEPT
                                 !.documents_lists =
                                     StoreResult(call.documents_lists, i, found.docs),
                                 !.done = call.done \cup {i}]
                  /\ UNCHANGED <<pc, last>>
             ELSE /\ pc' = IF found.out = "crash" THEN "crashed" ELSE "terminated"
                  /\ last' = [op |-> "ProcessQueries", queries |-> call.queries,
                              out |-> IF found.out = "crash" THEN "crash" ELSE "terminate",
                              what |-> found.out, result |-> <<>>]
                  /\ UNCHANGED call
    /\ UNCHANGED <<index, add_calls>>

\* Line 17.
ProcessQueriesEnd ==
    /\ pc = "process_queries"
    /\ call.done = 1..Len(call.queries)
    /\ pc' = "returned"
    /\ last' = [op |-> "ProcessQueries", queries |-> call.queries,
                out |-> "ok", what |-> "", result |-> call.documents_lists]
    /\ call' = NoCall
    /\ UNCHANGED <<index, add_calls>>

NextBatch ==
    \/ AddDocumentToSearch
    \/ RemoveDocumentSeq
    \/ ProcessQueriesBegin
    \/ ProcessQueriesWorker
    \/ ProcessQueriesEnd
    \/ Return

SpecBatch == Init /\ [][NextBatch]_vars

\* The query parses: it is well formed.
WellFormed(raw_query) == ParseQuery(raw_query, FALSE).err = "none"

\* C9: ProcessQueries over N well-formed queries on an index that does not
\* change returns N lists, and the list at position i is what
\* FindTopDocuments(queries[i]) returns on that index, whatever the order
\* the workers ran in.
C9_BatchOrderPreserved ==
    (/\ last.op = "ProcessQueries"
     /\ \A i \in 1..Len(last.queries) : WellFormed(last.queries[i]))
        => /\ last.out = "ok"
           /\ Len(last.result) = Len(last.queries)
           /\ \A i \in 1..Len(last.queries) :
                  \A found \in FindTopDocumentsOutcomes(Index, last.queries[i]) :
                      found.out = "ok" /\ found.docs = last.result[i]

\* C10: when the search of a query of the batch fails, ProcessQueries ends
\* with an error its caller can handle, once, and the index is unchanged.
C10_BatchFailureReported ==
    (/\ last.op = "ProcessQueries"
     /\ \E i \in 1..Len(last.queries) : ~WellFormed(last.queries[i]))
        => /\ pc = "returned"
           /\ last.out = "invalid_argument"

(***************************************************************************)
(* Further properties of the index, checked under Spec.                    *)
(***************************************************************************)
\* C11: a RemoveDocument, sequenced or parallel, of an id that is not in the
\* index returns without an error and leaves every container as it was; and
\* a RemoveDocument that returned, applied again to what it left, returns
\* and changes nothing (for every index a caller gets back).
C11_RemoveAbsentIsNoOp ==
    [][/\ (/\ pc = "idle"
           /\ \/ /\ last'.op \in {"RemoveDocument", "RemoveDocumentPar"}
                 /\ last'.id \notin document_ids_
              \/ /\ call'.op = "RemoveDocumentPar"
                 /\ call'.id \notin document_ids_)
          => (pc' = "returned" /\ last'.out = "ok" /\ index' = index)
       /\ (pc = "returned" /\ pc' = "idle")
          => \A document_id \in DocIds :
                 \A once \in RemoveDocumentOutcomes(Index', document_id) :
                     once.out = "ok" =>
                         \A twice \in RemoveDocumentOutcomes(once.S, document_id) :
                             twice.out = "ok" /\ twice.S = once.S]_vars

\* The frequencies of a document sum to 1 and each lies in (0, 1].
FrequenciesSumToOne(S, document_id) ==
    LET word_freqs == GetWordFrequencies(S, document_id)
    IN  /\ SumFreqs(word_freqs) = [num |-> 1, den |-> 1]
        /\ \A i \in DOMAIN word_freqs :
               /\ word_freqs[i].freq.num > 0
               /\ word_freqs[i].freq.num <= word_freqs[i].freq.den

\* C12: in every state, the frequencies of every document of the
\* id set sum to 1 and each lies in (0, 1].
C12_FrequencySum ==
    \A document_id \in document_ids_ : FrequenciesSumToOne(Index, document_id)

(***************************************************************************)
(* The splitter and the query parser on their own.                         *)
(***************************************************************************)
\* The bytes of the texts: 'a', 's' (the stop word), ' ' and '-'.
TextChars == {97, 115, 32, 45}

Texts == UNION {[1..n -> TextChars] : n \in 0..MaxTextLen}

SplitIntoWordsCall ==
    /\ pc = "idle"
    /\ \E text \in Texts :
          last' = [op |-> "SplitIntoWords", text |-> text,
                   result |-> SplitIntoWords(text)]
    /\ UNCHANGED <<index, pc, call, add_calls>>

ParseQueryCall ==
    /\ pc = "idle"
    /\ \E text \in Texts, skip_sort \in BOOLEAN :
          last' = [op |-> "ParseQuery", text |-> text, skip_sort |-> skip_sort,
                   result |-> ParseQuery(text, skip_sort)]
    /\ UNCHANGED <<index, pc, call, add_calls>>

NextParse ==
    \/ SplitIntoWordsCall
    \/ ParseQueryCall

SpecParse == Init /\ [][NextParse]_vars

NoDuplicates(s) == \A i, j \in 1..Len(s) : s[i] = s[j] => i = j

\* C13: a query ParseQuery returns without skip_sort has no word among both
\* the plus and the minus words, no word twice among either, and no stop
\* word.
C13_QuerySetsDisjoint ==
    (last.op = "ParseQuery" /\ ~last.skip_sort /\ last.result.err = "none") =>
        /\ Range(last.result.plus_words) \cap Range(last.result.minus_words) = {}
        /\ NoDuplicates(last.result.plus_words)
        /\ NoDuplicates(last.result.minus_words)
        /\ \A word \in Range(last.result.plus_words) \cup Range(last.result.minus_words) :
               ~IsStopWord(word)

\* C14: SplitIntoWords returns no empty word, and no word at all for the
\* empty text.
C14_SplitYieldsNonEmptyWords ==
    last.op = "SplitIntoWords" =>
        /\ \A i \in 1..Len(last.result) : last.result[i] # <<>>
        /\ last.text = <<>> => last.result = <<>>

(***************************************************************************)
(* Invariants of the containers, checked under Spec.                       *)
(***************************************************************************)
\* A call has ended and the caller has the index back: it returned, or it
\* threw an exception the caller can catch.
BetweenCalls == pc \in {"idle", "returned"}

\* forward[id][word] = f if and only if reverse[word][id] = f.
Mirror(S) ==
    LET rev == S.word_to_document_freqs_
        fwd == S.document_to_word_freqs_
    IN  /\ \A document_id \in DOMAIN fwd : \A i \in DOMAIN fwd[document_id] :
               \E j \in NodesOf(rev, fwd[document_id][i].key) :
                   /\ document_id \in DOMAIN rev[j].freqs
                   /\ rev[j].freqs[document_id] = fwd[document_id][i].freq
        /\ \A j \in DOMAIN rev : \A document_id \in DOMAIN rev[j].freqs :
               /\ document_id \in DOMAIN fwd
               /\ \E i \in NodesOf(fwd[document_id], rev[j].key) :
                      fwd[document_id][i].freq = rev[j].freqs[document_id]

\* C15: after every AddDocument and RemoveDocument, also one that failed,
\* the forward map and the reverse map mirror each other.
C15_MirrorInvariant == BetweenCalls => Mirror(Index)

\* The id is in none of the containers.
NoResidue(S, document_id) ==
    /\ document_id \notin DOMAIN S.documents_
    /\ document_id \notin S.document_ids_
    /\ document_id \notin DOMAIN S.document_to_word_freqs_
    /\ \A word \in Keys(S.word_to_document_freqs_) :
           document_id \notin PostingSet(S, word)

\* C16: when a RemoveDocument, sequenced or parallel, of an id that an
\* AddDocument had put into the metadata map has returned, the id is in
\* none of the metadata map, the id set, the forward map and the posting
\* sets, and AddDocument accepts it again.
C16_NoResidueAfterRemoval ==
    [][(\/ /\ pc = "idle"
           /\ last'.op = "RemoveDocument"
           /\ last'.out = "ok"
           /\ last'.id \in DOMAIN documents_
        \/ /\ pc # "returned"
           /\ pc' = "returned"
           /\ last'.op = "RemoveDocumentPar"
           /\ last'.out = "ok"
           /\ last'.id \in DOMAIN last'.pre.documents_)
       => /\ NoResidue(Index', last'.id)
          /\ ~InvalidDocumentId(Index', last'.id)]_vars

\* C17: while the workers of the parallel RemoveDocument run, the id set,
\* the metadata map and the forward map do not change and the reverse map
\* keeps its keys; a worker erases from the postings of one word, which no
\* other worker has erased from, and from no other; and the forward map is
\* erased from only when every worker is through.
C17_ParallelRemoveWorkersDisjoint ==
    [][pc = "remove_transform" =>
         /\ pc' = "remove_transform" =>
               /\ documents_' = documents_
               /\ document_ids_' = document_ids_
               /\ document_to_word_freqs_' = document_to_word_freqs_
               /\ DOMAIN word_to_document_freqs_' = DOMAIN word_to_document_freqs_
               /\ \A p \in DOMAIN word_to_document_freqs_ :
                      word_to_document_freqs_'[p].key = word_to_document_freqs_[p].key
               /\ Cardinality(call'.erased \ call.erased) <= 1
               /\ call'.erased = call.erased =>
                      word_to_document_freqs_' = word_to_document_freqs_
               /\ \A i \in call'.erased \ call.erased :
                      /\ \A j \in call.erased : call.words[j] # call.words[i]
                      /\ \A p \in DOMAIN word_to_document_freqs_ :
                             word_to_document_freqs_[p].key # call.words[i] =>
                                 word_to_document_freqs_'[p] =
                                     word_to_document_freqs_[p]
         /\ pc' = "terminated" => index' = index
         /\ pc' = "returned" =>
               /\ call.erased = 1..Len(call.word_freqs)
               /\ word_to_document_freqs_' = word_to_document_freqs_
               /\ documents_' = documents_
               /\ document_ids_' = document_ids_]_vars

(***************************************************************************)
(* ComputeWordInverseDocumentFreq called on its own.                       *)
(***************************************************************************)
\* "a" and "b".
IdfWords == {<<97>>, <<98>>}

ComputeWordInverseDocumentFreqCall ==
    /\ pc = "idle"
    /\ \E word \in IdfWords :
          \E o \in ComputeWordInverseDocumentFreqOutcomes(Index, word) :
             /\ pc' = After(o)
             /\ last' = [op |-> "ComputeWordInverseDocumentFreq", word |-> word,
                         out |-> o.out, class |-> o.class, value |-> o.value]
    /\ UNCHANGED <<index, call, add_calls>>

NextIdf ==
    \/ AddDocumentToMatch
    \/ RemoveDocumentSeq
    \/ ComputeWordInverseDocumentFreqCall
    \/ Return

SpecIdf == Init /\ [][NextIdf]_vars

\* C18: ComputeWordInverseDocumentFreq fails for a word that no document of
\* the index holds, also when documents that held it have been removed, and
\* computes no value from a posting count of zero.
C18_IdfFailsOnZeroPostings ==
    (last.op = "ComputeWordInverseDocumentFreq" /\ PostingSet(Index, last.word) = {})
        => last.out = "out_of_range"

\* The key views the text of a document the metadata map holds.
ViewsLiveText(S, entry) ==
    /\ ~Dangling(entry)
    /\ entry.data \subseteq DOMAIN S.documents_

\* C19: in every state, the states inside RemoveDocument included, every
\* key of the forward map and of the reverse map views the text of a
\* document that the metadata map still holds.
C19_KeysViewLiveText ==
    /\ \A i \in DOMAIN word_to_document_freqs_ :
           ViewsLiveText(Index, word_to_document_freqs_[i])
    /\ \A document_id \in DOMAIN document_to_word_freqs_ :
           \A i \in DOMAIN document_to_word_freqs_[document_id] :
               ViewsLiveText(Index, document_to_word_freqs_[document_id][i])

\* C20: after every AddDocument and RemoveDocument, also one that failed,
\* GetDocumentCount() is the number of ids begin()..end() yields, and the
\* keys of the metadata map are the id set.
C20_CountEqualsIdSet ==
    BetweenCalls =>
        /\ GetDocumentCount(Index) = Len(DocumentIds(Index))
        /\ DOMAIN documents_ = document_ids_

====
